---- MODULE Spec2Model ----
(***************************************************************************)
(* Model of use-local-sdk.py: the tool that switches the spyglass-ai       *)
(* dependency of the example projects between the local SDK checkout and   *)
(* the published package by rewriting a block of each pyproject.toml.      *)
(*                                                                         *)
(* A descriptor text is a sequence of tokens.  Each token stands for a     *)
(* piece of text that the two regular expressions of the script treat as   *)
(* a unit:                                                                 *)
(*   "L1"  # Uncomment the section below ... for development               *)
(*   "L2"  # This assumes spyglass-sdk is located at ... to this file      *)
(*   "H"   [tool.uv.sources]                                               *)
(*   "D"   spyglass-ai = { path = "../../spyglass-sdk", editable = true }  *)
(*   "Dx"  the same declaration spelled with other whitespace, which       *)
(*         the \s* parts of the pattern accept                             *)
(*   "#"   the comment marker                                              *)
(*   "sp"  one blank                                                       *)
(*   "nl"  the line terminator \n                                          *)
(*   "x"   any other character (not whitespace, not a comment marker)      *)
(***************************************************************************)
EXTENDS Integers, Sequences, FiniteSets, TLC

VARIABLES
    content,    \* unit level: the one pyproject.toml the functions are called on
    hist,       \* unit level: the last two calls, oldest first
    argv,       \* sys.argv[1:]
    files,      \* project name -> its pyproject.toml
    files0,     \* the files as they were when the run started
    pc,         \* position of main
    command,    \* sys.argv[1].lower()
    idx,        \* index of the first for loop over EXAMPLE_DIRS
    updated,    \* the list `updated`
    synced,     \* the list `synced`
    sidx,       \* index of the for loop over `updated`
    out,        \* the per-project lines printed
    trace,      \* external effects in order: descriptor accesses and uv sync runs
    exitCode,   \* exit code of the process: 0 unless sys.exit(1) is reached
    pending     \* <<text>> while write_text(text) has opened the file and not
                \* returned, else <<>>

vars == <<content, hist, argv, files, files0, pc, command, idx, updated,
          synced, sidx, out, trace, exitCode, pending>>

unitVars == <<content, hist>>
mainVars == <<argv, files, files0, pc, command, idx, updated, synced, sidx,
              out, trace, exitCode, pending>>

(***************************************************************************)
(* Bounds                                                                  *)
(***************************************************************************)
\* At most this many of the junk slots of a generated block hold extra text.
MaxJunk == 1

(***************************************************************************)
(* Texts                                                                   *)
(***************************************************************************)
Min(S) == CHOOSE a \in S : \A b \in S : a <= b

\* What \s matches.
Whitespace == {"sp", "nl"}

\* Texts matched by  spyglass-ai\s*=\s*\{\s*path\s*=\s*"../../spyglass-sdk",\s*editable\s*=\s*true\s*\}
DepTokens == {"D", "Dx"}

\* DISABLED_SECTION with the marker of the header line forgotten.
DISABLED_SECTION_HeaderLeft ==
    <<"L1", "nl", "L2", "nl", "H", "nl", "#", "sp", "D">>

ENABLED_SECTION == <<"L1", "nl", "L2", "nl", "H", "nl", "D">>

DISABLED_SECTION == <<"L1", "nl", "L2", "nl", "#", "sp", "H", "nl", "#", "sp", "D">>

\* A file on disk: absent, or present with a text.
Missing == [exists |-> FALSE, text |-> <<>>]

File(t) == [exists |-> TRUE, text |-> t]

\* re.search(r"^\s*\[tool\.uv\.sources\]", content, re.MULTILINE) is not None
IsEnabled(t) ==
    \E h \in 1..Len(t) :
        /\ t[h] = "H"
        /\ \E j \in 1..h :
            /\ j = 1 \/ t[j - 1] = "nl"
            /\ \A m \in j..(h - 1) : t[m] \in Whitespace

\* \s* from position i on: the first position that holds no whitespace.
RECURSIVE SkipWs(_, _)
SkipWs(t, i) ==
    IF i <= Len(t) /\ t[i] \in Whitespace THEN SkipWs(t, i + 1) ELSE i

\* (#\s*)?<one of want> tried at position i: the position of the matched
\* token, 0 if the pattern does not match at i.
OptCommented(t, i, want) ==
    IF i > Len(t) THEN 0
    ELSE IF t[i] \in want THEN i
    ELSE IF t[i] = "#"
         THEN LET j == SkipWs(t, i + 1)
              IN IF j <= Len(t) /\ t[j] \in want THEN j ELSE 0
    ELSE 0

\* SOURCES_PATTERN is
\*     L1 .*?\n L2 .*?\n (#\s*)?H .*?\n (#\s*)?D
\* Each .*? is non-greedy and, under re.DOTALL, runs over line ends: the
\* matcher tries to end it at the nearest \n first and moves on to the next
\* one when the rest of the pattern does not match from there.

\* .*?\n(#\s*)?D  with the .*? ending at q or later: <<q3, e>>, the line
\* end taken and the position of the dependency declaration; <<>> if none.
RECURSIVE ToDependency(_, _)
ToDependency(t, q) ==
    IF q > Len(t) THEN <<>>
    ELSE IF t[q] = "nl" /\ OptCommented(t, q + 1, DepTokens) # 0
         THEN <<q, OptCommented(t, q + 1, DepTokens)>>
    ELSE ToDependency(t, q + 1)

\* .*?\n(#\s*)?H.*?\n(#\s*)?D  with the first .*? ending at q or later:
\* <<q2, h, q3, e>>.
RECURSIVE ToHeader(_, _)
ToHeader(t, q) ==
    IF q > Len(t) THEN <<>>
    ELSE LET h == OptCommented(t, q + 1, {"H"})
         IN IF t[q] = "nl" /\ h # 0 /\ ToDependency(t, h + 1) # <<>>
            THEN <<q, h>> \o ToDependency(t, h + 1)
            ELSE ToHeader(t, q + 1)

\* .*?\nL2.*?\n(#\s*)?H.*?\n(#\s*)?D  with the first .*? ending at q or
\* later: <<q1, q2, h, q3, e>>.
RECURSIVE ToLine2(_, _)
ToLine2(t, q) ==
    IF q >= Len(t) THEN <<>>
    ELSE IF t[q] = "nl" /\ t[q + 1] = "L2" /\ ToHeader(t, q + 2) # <<>>
         THEN <<q>> \o ToHeader(t, q + 2)
    ELSE ToLine2(t, q + 1)

\* SOURCES_PATTERN.match(t, p): <<>> if no match starts at p, else
\* <<q1, q2, h, q3, e>>: the three line ends that end the three .*?, the
\* position of the header, and the position of the dependency declaration,
\* which ends the match.
SOURCES_PATTERN(t, p) ==
    IF t[p] = "L1" THEN ToLine2(t, p + 1) ELSE <<>>

\* m.end() of a match
MatchEnd(m) == m[Len(m)]

\* The replace loop of Pattern.sub from position pos on.
RECURSIVE SubFrom(_, _, _)
SubFrom(repl, t, pos) ==
    IF pos > Len(t) THEN <<>>
    ELSE LET m == SOURCES_PATTERN(t, pos)
         IN IF m # <<>>
            THEN repl \o SubFrom(repl, t, MatchEnd(m) + 1)
            ELSE <<t[pos]>> \o SubFrom(repl, t, pos + 1)

\* SOURCES_PATTERN.sub(repl, t): every non-overlapping match, leftmost
\* first, replaced by repl.
Sub(repl, t) == SubFrom(repl, t, 1)

(***************************************************************************)
(* The functions of the script                                             *)
(***************************************************************************)
\* A return without write_text: the flag False, the file as it was.
NoWrite(f) == [changed |-> FALSE, wrote |-> FALSE, file |-> f]

\* update_pyproject_toml without the two early returns on the detected mode.
update_pyproject_toml_NoEarlyReturn(f, enable) ==
    IF ~f.exists THEN NoWrite(f)
    ELSE LET new_content ==
                Sub(IF enable THEN ENABLED_SECTION ELSE DISABLED_SECTION,
                    f.text)
         IN IF new_content # f.text
            THEN [changed |-> TRUE, wrote |-> TRUE, file |-> File(new_content)]
            ELSE NoWrite(f)

\* update_pyproject_toml with write_text called whether or not the text
\* differs.
update_pyproject_toml_WritesAlways(f, enable) ==
    IF ~f.exists THEN NoWrite(f)
    ELSE LET is_enabled == IsEnabled(f.text)
         IN IF enable /\ is_enabled THEN NoWrite(f)
            ELSE IF ~enable /\ ~is_enabled THEN NoWrite(f)
            ELSE LET new_content ==
                        Sub(IF enable THEN ENABLED_SECTION
                            ELSE DISABLED_SECTION, f.text)
                 IN [changed |-> new_content # f.text, wrote |-> TRUE,
                     file |-> File(new_content)]

\* update_pyproject_toml(file_path, enable): the returned flag, whether
\* write_text was called, and the file as it is on disk afterwards.
update_pyproject_toml(f, enable) ==
    IF ~f.exists THEN NoWrite(f)
    ELSE LET is_enabled == IsEnabled(f.text)
         IN IF enable /\ is_enabled THEN NoWrite(f)
            ELSE IF ~enable /\ ~is_enabled THEN NoWrite(f)
            ELSE LET new_content ==
                        Sub(IF enable THEN ENABLED_SECTION
                            ELSE DISABLED_SECTION, f.text)
                 IN IF new_content # f.text
                    THEN [changed |-> TRUE, wrote |-> TRUE,
                          file |-> File(new_content)]
                    ELSE NoWrite(f)

\* get_status taking a file it cannot read for one without the section.
get_status_MissingIsDisabled(f) ==
    IF f.exists /\ IsEnabled(f.text) THEN "enabled" ELSE "disabled"

\* get_status(file_path)
get_status(f) ==
    IF ~f.exists THEN "not found"
    ELSE IF IsEnabled(f.text) THEN "enabled" ELSE "disabled"

(***************************************************************************)
(* Descriptor texts the functions are exercised on                         *)
(***************************************************************************)
\* How the header line and the dependency line may begin: uncommented,
\* commented without or with a blank after the marker, or indented.
Markers == {<<>>, <<"#">>, <<"#", "sp">>}

HeaderStarts == Markers \cup {<<"sp">>}

\* Places of a block where extra text may lie: after the text of comment
\* line 1 on its line, a line between the two comment lines, a line between
\* comment line 2 and the header, after the header on its line, a line
\* between the header and the dependency declaration.
JunkSlots == {"after L1", "line before L2", "line before H", "after H",
              "line before D"}

JunkSets == {s \in SUBSET JunkSlots : Cardinality(s) <= MaxJunk}

JunkTail(s, n) == IF n \in s THEN <<"x">> ELSE <<>>

JunkLine(s, n) == IF n \in s THEN <<"x", "nl">> ELSE <<>>

Block(s, hs, ds, d) ==
    <<"L1">> \o JunkTail(s, "after L1") \o <<"nl">>
        \o JunkLine(s, "line before L2") \o <<"L2", "nl">>
        \o JunkLine(s, "line before H")
        \o hs \o <<"H">> \o JunkTail(s, "after H") \o <<"nl">>
        \o JunkLine(s, "line before D")
        \o ds \o <<d>>

Blocks ==
    {Block(s, hs, ds, d) : s \in JunkSets, hs \in HeaderStarts,
                           ds \in Markers, d \in DepTokens}

\* What may precede the block: nothing, an unrelated line, or a line with an
\* uncommented section header of its own.
Before == {<<>>, <<"x", "nl">>, <<"H", "nl">>}

\* What may follow the block.
After == {<<>>, <<"nl">>, <<"nl", "x", "nl">>}

\* A second occurrence of the block, in one of its two canonical forms.
Second == {<<>>, <<"nl">> \o ENABLED_SECTION, <<"nl">> \o DISABLED_SECTION}

Texts ==
    {b \o blk \o s2 \o a : b \in Before, blk \in Blocks \cup {<<>>},
                           s2 \in Second, a \in After}

(***************************************************************************)
(* Unit level: update_pyproject_toml and get_status called on one file     *)
(***************************************************************************)
Last2(h) == IF Len(h) <= 1 THEN h ELSE SubSeq(h, Len(h) - 1, Len(h))

\* The main-level variables, idle.
MainIdle ==
    /\ argv = <<>>
    /\ files = <<>>
    /\ files0 = <<>>
    /\ pc = "idle"
    /\ command = <<>>
    /\ idx = 1
    /\ updated = <<>>
    /\ synced = <<>>
    /\ sidx = 1
    /\ out = <<>>
    /\ trace = <<>>
    /\ exitCode = 0
    /\ pending = <<>>

InitUnit ==
    /\ content \in {File(t) : t \in Texts} \cup {Missing}
    /\ hist = <<>>
    /\ MainIdle

CallUpdate(enable) ==
    LET r == update_pyproject_toml(content, enable)
    IN /\ content' = r.file
       /\ hist' = Last2(Append(hist,
                    [op |-> IF enable THEN "enable" ELSE "disable",
                     before |-> content, changed |-> r.changed,
                     wrote |-> r.wrote,
                     status |-> ""]))
       /\ UNCHANGED mainVars

CallStatus ==
    /\ hist' = Last2(Append(hist,
                    [op |-> "status", before |-> content, changed |-> FALSE,
                     wrote |-> FALSE,
                     status |-> get_status(content)]))
    /\ UNCHANGED <<content, mainVars>>

NextUnit ==
    \/ \E enable \in BOOLEAN : CallUpdate(enable)
    \/ CallStatus

SpecUnit == InitUnit /\ [][NextUnit]_vars

(***************************************************************************)
(* Main level: one run of the script                                       *)
(***************************************************************************)
EXAMPLE_DIRS == <<"fastapi-langchain", "langchain-aws", "openai-simple">>

Projects == {EXAMPLE_DIRS[n] : n \in DOMAIN EXAMPLE_DIRS}

Capitals == <<"E", "N", "A", "B", "L", "D", "I", "S", "T", "U", "Y", "C">>

Smalls == <<"e", "n", "a", "b", "l", "d", "i", "s", "t", "u", "y", "c">>

\* The argument compared as typed.
Lower_Identity(w) == w

\* str.lower(), on the letters the arguments below are written with.
Lower(w) ==
    [n \in DOMAIN w |->
        IF \E c \in DOMAIN Capitals : Capitals[c] = w[n]
        THEN Smalls[CHOOSE c \in DOMAIN Capitals : Capitals[c] = w[n]]
        ELSE w[n]]

CmdEnable == <<"e", "n", "a", "b", "l", "e">>

CmdDisable == <<"d", "i", "s", "a", "b", "l", "e">>

CmdStatus == <<"s", "t", "a", "t", "u", "s">>

\* Command lines: no argument, the three commands, spellings of them in
\* other case, an unknown word, an empty argument.
Arguments ==
    {<<>>, <<CmdEnable>>, <<CmdDisable>>, <<CmdStatus>>,
     <<(<<"E", "N", "A", "B", "L", "E">>)>>,
     <<(<<"D", "i", "s", "a", "b", "l", "e">>)>>,
     <<(<<"s", "t", "a", "t", "u", "S">>)>>,
     <<(<<"s", "y", "n", "c">>)>>,
     <<(<<>>)>>}

\* Descriptors of the example projects: the block commented, the block
\* uncommented, no block at all, a section header of its own before the
\* commented and before the uncommented block, the header uncommented with
\* the dependency line commented, a section header of its own and no block,
\* and no file.
SampleFiles ==
    {File(<<"x", "nl">> \o DISABLED_SECTION \o <<"nl">>),
     File(<<"x", "nl">> \o ENABLED_SECTION \o <<"nl">>),
     File(<<"x", "nl">>),
     File(<<"H", "nl">> \o DISABLED_SECTION),
     File(<<"H", "nl">> \o ENABLED_SECTION),
     File(Block({}, <<>>, <<"#", "sp">>, "D") \o <<"nl">>),
     File(<<"H", "nl", "x", "nl">>),
     Missing}

\* What subprocess.run(["uv", "sync"], check=True) may do.
SyncOutcomes == {"ok", "CalledProcessError", "FileNotFoundError"}

\* run_uv_sync(example_dir), given what the subprocess did.
run_uv_sync(outcome) == outcome = "ok"

Init ==
    /\ content = Missing
    /\ hist = <<>>
    /\ argv \in Arguments
    /\ files \in [Projects -> SampleFiles]
    /\ files0 = files
    /\ pc = "start"
    /\ command = <<>>
    /\ idx = 1
    /\ updated = <<>>
    /\ synced = <<>>
    /\ sidx = 1
    /\ out = <<>>
    /\ trace = <<>>
    /\ exitCode = 0
    /\ pending = <<>>

\* len(sys.argv) < 2: usage, sys.exit(1)
NoArgument ==
    /\ pc = "start"
    /\ Len(argv) < 1
    /\ pc' = "exit"
    /\ exitCode' = 1
    /\ UNCHANGED <<unitVars, pending, argv, files, files0, command, idx,
                   updated, synced, sidx, out, trace>>

\* The chain with status handled by the branch that rewrites.
Branch_StatusRewrites(cmd) ==
    IF cmd \in {CmdEnable, CmdDisable, CmdStatus} THEN "update" ELSE "exit"

\* The if/elif chain on command: the branch main takes.
Branch(cmd) ==
    IF cmd = CmdEnable THEN "update"
    ELSE IF cmd = CmdDisable THEN "update"
    ELSE IF cmd = CmdStatus THEN "status"
    ELSE "exit"

\* command = sys.argv[1].lower() and the if/elif chain on it; the else
\* branch prints the usage and calls sys.exit(1)
Dispatch ==
    /\ pc = "start"
    /\ Len(argv) >= 1
    /\ command' = Lower(argv[1])
    /\ pc' = Branch(command')
    /\ exitCode' = IF Branch(command') = "exit" THEN 1 ELSE exitCode
    /\ UNCHANGED <<unitVars, pending, argv, files, files0, idx, updated,
                   synced, sidx, out, trace>>

\* The line of a project that was not changed, printed without asking
\* get_status.
UpdateLine_NoStatus(name, r, target) ==
    IF r.changed
    THEN [project |-> name, line |-> target, status |-> ""]
    ELSE [project |-> name, line |-> "already", status |-> target]

\* The line printed for a project in the enable or disable branch, r being
\* what update_pyproject_toml returned and left on disk: "Enabled for" or
\* "Disabled for" after a change, else, by get_status, "Already ..." or
\* "Could not update ... (status: ...)".
UpdateLine(name, r, target) ==
    IF r.changed
    THEN [project |-> name, line |-> target, status |-> ""]
    ELSE [project |-> name,
          line |-> IF get_status(r.file) = target THEN "already"
                   ELSE "could not update",
          status |-> get_status(r.file)]

\* The line printed for a project in the status branch.
StatusLine(name, f) ==
    [project |-> name, line |-> "status", status |-> get_status(f)]

\* Every project collected, changed or not.
Collect_Always(list, name, changed) == Append(list, name)

\* if update_pyproject_toml(...): updated.append(example_dir)
Collect(list, name, changed) == IF changed THEN Append(list, name) ELSE list

\* One iteration of `for example_dir_name in EXAMPLE_DIRS` of the enable and
\* of the disable branch.
UpdateStep ==
    /\ pc = "update"
    /\ idx <= Len(EXAMPLE_DIRS)
    /\ LET name   == EXAMPLE_DIRS[idx]
           enable == command = CmdEnable
           target == IF enable THEN "enabled" ELSE "disabled"
           r      == update_pyproject_toml(files[name], enable)
       IN /\ files' = [files EXCEPT ![name] = r.file]
          /\ updated' = Collect(updated, name, r.changed)
          /\ out' = Append(out, UpdateLine(name, r, target))
          /\ trace' = Append(trace, [kind |-> "update", project |-> name,
                                     outcome |-> ""])
    /\ idx' = idx + 1
    /\ UNCHANGED <<unitVars, pending, argv, files0, pc, command, synced,
                   sidx, exitCode>>

\* `if updated:` after the loop; "No changes needed." otherwise
UpdateDone ==
    /\ pc = "update"
    /\ idx > Len(EXAMPLE_DIRS)
    /\ pc' = IF updated # <<>> THEN "sync" ELSE "exit"
    /\ UNCHANGED <<unitVars, pending, argv, files, files0, command, idx,
                   updated, synced, sidx, out, trace, exitCode>>

\* The list walked from its end.
SyncTarget_Reversed(list, n) == list[Len(list) + 1 - n]

\* The element `for example_dir in updated` reaches in its n-th iteration.
SyncTarget(list, n) == list[n]

\* The loop left at the first failure.
SyncContinue_StopOnFailure(list, n, ok) == IF ok THEN n + 1 ELSE Len(list) + 1

\* Where the loop over `updated` goes on after an iteration: run_uv_sync
\* returns False on a failure and raises nothing.
SyncContinue(list, n, ok) == n + 1

\* One iteration of `for example_dir in updated`
SyncStep ==
    /\ pc = "sync"
    /\ sidx <= Len(updated)
    /\ \E outcome \in SyncOutcomes :
        /\ synced' = IF run_uv_sync(outcome)
                     THEN Append(synced, SyncTarget(updated, sidx))
                     ELSE synced
        /\ trace' = Append(trace, [kind |-> "sync",
                                   project |-> SyncTarget(updated, sidx),
                                   outcome |-> outcome])
        /\ sidx' = SyncContinue(updated, sidx, run_uv_sync(outcome))
    /\ UNCHANGED <<unitVars, pending, argv, files, files0, pc, command, idx,
                   updated, out, exitCode>>

SyncDone ==
    /\ pc = "sync"
    /\ sidx > Len(updated)
    /\ pc' = "exit"
    /\ UNCHANGED <<unitVars, pending, argv, files, files0, command, idx,
                   updated, synced, sidx, out, trace, exitCode>>

\* One iteration of the loop of the status branch
StatusStep ==
    /\ pc = "status"
    /\ idx <= Len(EXAMPLE_DIRS)
    /\ LET name == EXAMPLE_DIRS[idx]
       IN /\ out' = Append(out, StatusLine(name, files[name]))
          /\ trace' = Append(trace, [kind |-> "status", project |-> name,
                                     outcome |-> ""])
    /\ idx' = idx + 1
    /\ UNCHANGED <<unitVars, pending, argv, files, files0, pc, command,
                   updated, synced, sidx, exitCode>>

StatusDone ==
    /\ pc = "status"
    /\ idx > Len(EXAMPLE_DIRS)
    /\ pc' = "exit"
    /\ UNCHANGED <<unitVars, pending, argv, files, files0, command, idx,
                   updated, synced, sidx, out, trace, exitCode>>

Next ==
    \/ NoArgument
    \/ Dispatch
    \/ UpdateStep
    \/ UpdateDone
    \/ SyncStep
    \/ SyncDone
    \/ StatusStep
    \/ StatusDone

Spec == Init /\ [][Next]_vars

(***************************************************************************)
(* An enable or disable run that the operator may terminate: the loop over *)
(* EXAMPLE_DIRS taken in the steps the file system sees.  write_text opens *)
(* the file for writing, which empties it, hands the text over, and closes *)
(* the file; the text reaches the file in one piece or in several.         *)
(***************************************************************************)
\* The project the first loop is at.
Current == EXAMPLE_DIRS[idx]

\* What update_pyproject_toml does with the descriptor of that project.
CurrentUpdate == update_pyproject_toml(files[Current], command = CmdEnable)

InitKill ==
    /\ Init
    /\ argv \in {<<CmdEnable>>, <<CmdDisable>>}

\* An iteration of the first loop in which update_pyproject_toml returns
\* without writing.
SkipStep ==
    /\ pc = "update"
    /\ idx <= Len(EXAMPLE_DIRS)
    /\ ~CurrentUpdate.wrote
    /\ UpdateStep

\* file_path.write_text(new_content), the file opened: it is empty, and the
\* text is not in it yet.
OpenStep ==
    /\ pc = "update"
    /\ idx <= Len(EXAMPLE_DIRS)
    /\ CurrentUpdate.wrote
    /\ pending' = <<CurrentUpdate.file.text>>
    /\ files' = [files EXCEPT ![Current] = File(<<>>)]
    /\ trace' = Append(trace, [kind |-> "update", project |-> Current,
                               outcome |-> ""])
    /\ pc' = "write"
    /\ UNCHANGED <<unitVars, argv, files0, command, idx, updated, synced,
                   sidx, out, exitCode>>

\* More of the text reaches the file: the rest of it, or a part.
WriteStep ==
    /\ pc = "write"
    /\ \E k \in (Len(files[Current].text) + 1)..Len(pending[1]) :
        files' = [files EXCEPT ![Current] = File(SubSeq(pending[1], 1, k))]
    /\ UNCHANGED <<unitVars, pending, argv, files0, pc, command, idx, updated,
                   synced, sidx, out, trace, exitCode>>

\* The file closed with the whole text in it: write_text returns,
\* update_pyproject_toml returns True, main collects the project and
\* prints its line.
CloseStep ==
    /\ pc = "write"
    /\ files[Current].text = pending[1]
    /\ pending' = <<>>
    /\ updated' = Collect(updated, Current, TRUE)
    /\ out' = Append(out, [project |-> Current,
                           line |-> IF command = CmdEnable THEN "enabled"
                                    ELSE "disabled",
                           status |-> ""])
    /\ idx' = idx + 1
    /\ pc' = "update"
    /\ UNCHANGED <<unitVars, argv, files, files0, command, synced, sidx,
                   trace, exitCode>>

\* The operator terminates the process.
Terminate ==
    /\ pc \in {"update", "write", "sync"}
    /\ pc' = "killed"
    /\ UNCHANGED <<unitVars, pending, argv, files, files0, command, idx,
                   updated, synced, sidx, out, trace, exitCode>>

NextKill ==
    \/ Dispatch
    \/ SkipStep
    \/ OpenStep
    \/ WriteStep
    \/ CloseStep
    \/ UpdateDone
    \/ SyncStep
    \/ SyncDone
    \/ Terminate

SpecKill == InitKill /\ [][NextKill]_vars

(***************************************************************************)
(* Vocabulary of the properties                                            *)
(***************************************************************************)
Updates == {"enable", "disable"}

\* The mode a transition aims at, as get_status names it.
TargetOf(op) == IF op = "enable" THEN "enabled" ELSE "disabled"

SectionOf(op) == IF op = "enable" THEN ENABLED_SECTION ELSE DISABLED_SECTION

\* The file after the n-th call of hist.
AfterCall(n) == IF n = Len(hist) THEN content ELSE hist[n + 1].before

\* The occurrences of the recognized block that a substitution replaces:
\* the spans <<first, last>> of the non-overlapping matches, leftmost first.
RECURSIVE SpansFrom(_, _)
SpansFrom(t, pos) ==
    IF pos > Len(t) THEN <<>>
    ELSE LET m == SOURCES_PATTERN(t, pos)
         IN IF m # <<>>
            THEN <<(<<pos, MatchEnd(m)>>)>> \o SpansFrom(t, MatchEnd(m) + 1)
            ELSE SpansFrom(t, pos + 1)

Spans(t) == SpansFrom(t, 1)

InSpan(t, i) ==
    LET sp == Spans(t)
    IN \E n \in DOMAIN sp : sp[n][1] <= i /\ i <= sp[n][2]

\* The texts before the first occurrence, between the occurrences and after
\* the last one, in order.
Outside(t) ==
    LET sp == Spans(t)
    IN [n \in 1..(Len(sp) + 1) |->
            SubSeq(t, IF n = 1 THEN 1 ELSE sp[n - 1][2] + 1,
                      IF n = Len(sp) + 1 THEN Len(t) ELSE sp[n][1] - 1)]

\* The occurrences themselves, in order.
Occurrences(t) ==
    LET sp == Spans(t) IN [n \in DOMAIN sp |-> SubSeq(t, sp[n][1], sp[n][2])]

\* Positions of an uncommented section header: what get_status looks for.
OpenHeaders(t) ==
    {h \in 1..Len(t) :
        /\ t[h] = "H"
        /\ \E j \in 1..h : /\ j = 1 \/ t[j - 1] = "nl"
                           /\ \A m \in j..(h - 1) : t[m] \in Whitespace}

\* The positions of an occurrence <<q1, q2, h, q3, e>> starting at p that
\* belong to its four lines: comment line 1, the line end and comment
\* line 2, the line end and the header with its marker, the line end and
\* the dependency declaration with its marker.
LinePositions(p, m) ==
    {p, m[1], m[1] + 1} \cup (m[2]..m[3]) \cup (m[4]..m[5])

\* The text that is not part of the four lines of an occurrence.
Unrelated(t) ==
    LET sp    == Spans(t)
        block == UNION {LinePositions(sp[n][1], SOURCES_PATTERN(t, sp[n][1])) :
                            n \in DOMAIN sp}
        keep  == {i \in 1..Len(t) : i \notin block}
        \* the i-th kept position
        RECURSIVE Nth(_, _)
        Nth(S, i) == IF i = 1 THEN Min(S) ELSE Nth(S \ {Min(S)}, i - 1)
    IN [i \in 1..Cardinality(keep) |-> t[Nth(keep, i)]]

\* Two calls of the same transition in a row.
SamePair ==
    /\ Len(hist) = 2
    /\ hist[1].op \in Updates
    /\ hist[2].op = hist[1].op

(***************************************************************************)
(* C1                                                                      *)
(***************************************************************************)
\* C1 as claimed: of two consecutive transitions to the same target on a
\* descriptor that is in the opposite mode, the first returns changed=true
\* and the second changed=false.
C1_FirstCallAlwaysChanges ==
    (SamePair /\ hist[1].before.exists
              /\ get_status(hist[1].before) # TargetOf(hist[1].op))
        => (hist[1].changed /\ ~hist[2].changed)

\* C1 amended: the second of two consecutive transitions to the same target
\* returns changed=false and writes nothing; the first returns changed=true
\* exactly when the descriptor was in the opposite mode and held an
\* occurrence of the block not already spelled as the target form; and a
\* transition whose target is the detected mode returns changed=false and
\* writes nothing.
C1_Idempotence ==
    /\ SamePair =>
        /\ ~hist[2].changed
        /\ content = hist[2].before
        /\ hist[1].changed <=>
            /\ hist[1].before.exists
            /\ get_status(hist[1].before) # TargetOf(hist[1].op)
            /\ \E n \in DOMAIN Occurrences(hist[1].before.text) :
                Occurrences(hist[1].before.text)[n] # SectionOf(hist[1].op)
    /\ \A n \in DOMAIN hist :
        (hist[n].op \in Updates
            /\ get_status(hist[n].before) = TargetOf(hist[n].op))
        => (~hist[n].changed /\ AfterCall(n) = hist[n].before)

\* A disable that rewrote the descriptor, followed by a disable that found
\* it in the target mode, returned changed=false and wrote nothing.
C1_Witness ==
    /\ SamePair
    /\ hist[1].changed
    /\ ~hist[2].changed
    /\ get_status(content) = TargetOf(hist[2].op)
    /\ hist[1].op = "disable"

(***************************************************************************)
(* C2                                                                      *)
(***************************************************************************)
\* enable and then disable have been called on a descriptor that was in
\* Published mode.
RoundTrip ==
    /\ Len(hist) = 2
    /\ hist[1].op = "enable"
    /\ hist[2].op = "disable"
    /\ hist[1].before.exists
    /\ get_status(hist[1].before) = "disabled"

\* C2 as claimed: enable then disable restores the text, whatever the
\* spelling of the block.
C2_RoundTripAnySpelling == RoundTrip => content = hist[1].before

\* Every comment line 1 of the text starts a block spelled exactly as the
\* commented form the script writes.
SpelledCommented(t) ==
    \A p \in 1..Len(t) :
        t[p] = "L1" =>
            /\ p + Len(DISABLED_SECTION) - 1 <= Len(t)
            /\ SubSeq(t, p, p + Len(DISABLED_SECTION) - 1) = DISABLED_SECTION

\* C2 restricted to the spelling the script writes: enable then disable
\* restores the text byte for byte when every block of the descriptor is
\* spelled exactly as DISABLED_SECTION.
C2_RoundTrip ==
    (RoundTrip /\ SpelledCommented(hist[1].before.text))
        => content = hist[1].before

\* A round trip through two rewrites, on a text with two blocks.
C2_Witness ==
    /\ RoundTrip
    /\ SpelledCommented(hist[1].before.text)
    /\ hist[1].changed
    /\ hist[2].changed
    /\ Len(Spans(hist[1].before.text)) = 2
    /\ content = hist[1].before

\* C2, the loss: a round trip through two rewrites of a descriptor with a
\* line of text between the lines of its block ends with fewer tokens of
\* such text than it began with.
C2_TextLost ==
    /\ RoundTrip
    /\ hist[1].changed
    /\ hist[2].changed
    /\ \E i \in DOMAIN hist[1].before.text :
            /\ hist[1].before.text[i] = "x"
            /\ InSpan(hist[1].before.text, i)
    /\ Cardinality({i \in DOMAIN content.text : content.text[i] = "x"})
         < Cardinality({i \in DOMAIN hist[1].before.text :
                            hist[1].before.text[i] = "x"})

(***************************************************************************)
(* C3                                                                      *)
(***************************************************************************)
\* status has been called right after a transition on an existing file.
StatusAfter(op) ==
    /\ Len(hist) = 2
    /\ hist[1].op = op
    /\ hist[2].op = "status"
    /\ hist[1].before.exists

\* C3 as claimed: after enable status reports enabled and after disable
\* disabled, whatever the content before.
C3_StatusAnyContent ==
    /\ StatusAfter("enable") => hist[2].status = "enabled"
    /\ StatusAfter("disable") => hist[2].status = "disabled"

\* C3 amended: after enable, status reports enabled when the descriptor was
\* already enabled or held an occurrence of the block; after disable, status
\* reports disabled when every uncommented section header of the descriptor
\* lay inside an occurrence of the block.
C3_StatusAccuracy ==
    /\ (StatusAfter("enable")
            /\ (get_status(hist[1].before) = "enabled"
                \/ Spans(hist[1].before.text) # <<>>))
        => hist[2].status = "enabled"
    /\ (StatusAfter("disable")
            /\ \A h \in OpenHeaders(hist[1].before.text) :
                    InSpan(hist[1].before.text, h))
        => hist[2].status = "disabled"

\* status reports disabled after a disable that rewrote an enabled
\* descriptor.
C3_Witness ==
    /\ StatusAfter("disable")
    /\ hist[1].changed
    /\ get_status(hist[1].before) = "enabled"
    /\ hist[2].status = "disabled"

(***************************************************************************)
(* C9                                                                      *)
(***************************************************************************)
\* C9 as claimed: a rewrite leaves every part of the file that is not one
\* of the four lines of the block as it was, text between the lines of the
\* block included.
C9_UnrelatedKept ==
    \A n \in DOMAIN hist :
        (hist[n].op \in Updates /\ hist[n].changed)
            => Unrelated(AfterCall(n).text) = Unrelated(hist[n].before.text)

\* C9 outside the occurrences: a rewrite leaves the text before, between
\* and after the occurrences of the block as it was, and every occurrence,
\* from comment line 1 through the dependency declaration with whatever
\* lies between, becomes the form of the target mode.
C9_PassThrough ==
    \A n \in DOMAIN hist :
        (hist[n].op \in Updates /\ hist[n].changed)
            => /\ Outside(AfterCall(n).text) = Outside(hist[n].before.text)
               /\ \A k \in DOMAIN Occurrences(AfterCall(n).text) :
                    Occurrences(AfterCall(n).text)[k] = SectionOf(hist[n].op)

\* A rewrite of a descriptor with text before and after its block and with
\* text inside the block, which the rewrite drops.
C9_Witness ==
    \E n \in DOMAIN hist :
        /\ hist[n].op \in Updates
        /\ hist[n].changed
        /\ Len(Outside(hist[n].before.text)) = 2
        /\ Outside(hist[n].before.text)[1] # <<>>
        /\ Outside(hist[n].before.text)[2] # <<>>
        /\ Unrelated(AfterCall(n).text) # Unrelated(hist[n].before.text)

(***************************************************************************)
(* Vocabulary of the properties of a run                                   *)
(***************************************************************************)
Range(q) == {q[n] : n \in DOMAIN q}

\* Place of a project in EXAMPLE_DIRS.
Index(p) == CHOOSE n \in DOMAIN EXAMPLE_DIRS : EXAMPLE_DIRS[n] = p

\* The uv sync runs for project p, as positions of trace.
SyncRuns(p) ==
    {n \in DOMAIN trace : trace[n].kind = "sync" /\ trace[n].project = p}

\* The lines printed for project p, as positions of out.
Lines(p) == {n \in DOMAIN out : out[n].project = p}

\* The run rewrote the descriptor of p.
Rewritten(p) == files[p] # files0[p]

\* Two words equal up to the case of their letters.
SameIgnoringCase(a, b) ==
    /\ Len(a) = Len(b)
    /\ \A n \in DOMAIN a :
        \/ a[n] = b[n]
        \/ \E c \in DOMAIN Capitals : {a[n], b[n]} = {Capitals[c], Smalls[c]}

\* The command line names one of the three commands.
ValidCommandLine ==
    /\ Len(argv) >= 1
    /\ \E w \in {CmdEnable, CmdDisable, CmdStatus} : SameIgnoringCase(argv[1], w)

\* The run is an enable or a disable run.
Rewriting == command \in {CmdEnable, CmdDisable}

\* The name of the transition an enable or disable run makes.
WordOf(cmd) == IF cmd = CmdEnable THEN "enable" ELSE "disable"

\* What the transition of the run does to a descriptor taken alone.
Alone(f) == update_pyproject_toml(f, command = CmdEnable)

(***************************************************************************)
(* C4                                                                      *)
(***************************************************************************)
\* C4: uv sync runs once for each project whose descriptor the run rewrote
\* and for no other project: never under status, never for a project that
\* was a no-op, a pattern mismatch or a missing descriptor.
C4_ResyncGating ==
    /\ \A p \in Projects :
        /\ Cardinality(SyncRuns(p)) <= 1
        /\ SyncRuns(p) # {} => Rewritten(p)
        /\ pc = "exit" => (Rewritten(p) => SyncRuns(p) # {})
    /\ \A n \in DOMAIN out :
        out[n].line \in {"already", "could not update", "status"}
            => SyncRuns(out[n].project) = {}
    /\ command = CmdStatus => \A p \in Projects : SyncRuns(p) = {}

\* The example of the specification: the first project disabled, the other
\* two enabled, enable: one project changed, one uv sync, for it.
C4_Witness ==
    /\ pc = "exit"
    /\ command = CmdEnable
    /\ get_status(files0[EXAMPLE_DIRS[1]]) = "disabled"
    /\ get_status(files0[EXAMPLE_DIRS[2]]) = "enabled"
    /\ get_status(files0[EXAMPLE_DIRS[3]]) = "enabled"
    /\ updated = <<EXAMPLE_DIRS[1]>>
    /\ Len(trace) = Len(EXAMPLE_DIRS) + 1
    /\ SyncRuns(EXAMPLE_DIRS[1]) = {Len(trace)}

(***************************************************************************)
(* C5                                                                      *)
(***************************************************************************)
\* C5: when a descriptor is missing, a finished run has treated every other
\* project as it treats that project's descriptor taken alone (same changed
\* flag, same resulting text, same line reported, never "not found"), and
\* the missing project is reported as "not found", is not written and is
\* not resynced.
C5_MissingIsolated ==
    (pc = "exit" /\ ValidCommandLine /\ \E q \in Projects : ~files0[q].exists)
    => \A p \in Projects :
        /\ Cardinality(Lines(p)) = 1
        /\ IF files0[p].exists
           THEN LET r == IF Rewriting THEN Alone(files0[p])
                         ELSE NoWrite(files0[p])
                IN /\ files[p] = r.file
                   /\ p \in Range(updated) <=> r.changed
                   /\ \A n \in Lines(p) :
                        /\ out[n].line = (IF ~Rewriting THEN "status"
                                ELSE IF r.changed THEN TargetOf(WordOf(command))
                                ELSE IF get_status(r.file) = TargetOf(WordOf(command))
                                     THEN "already" ELSE "could not update")
                        /\ out[n].status = (IF r.changed THEN ""
                                            ELSE get_status(r.file))
                        /\ out[n].status # "not found"
           ELSE /\ files[p] = Missing
                /\ p \notin Range(updated)
                /\ SyncRuns(p) = {}
                /\ \A n \in Lines(p) : out[n].status = "not found"

\* A finished enable run with the first descriptor missing and a later one
\* rewritten and resynced.
C5_Witness ==
    /\ pc = "exit"
    /\ command = CmdEnable
    /\ ~files0[EXAMPLE_DIRS[1]].exists
    /\ \E n \in Lines(EXAMPLE_DIRS[1]) :
        out[n].line = "could not update" /\ out[n].status = "not found"
    /\ Rewritten(EXAMPLE_DIRS[2])
    /\ EXAMPLE_DIRS[2] \in Range(synced)

(***************************************************************************)
(* C6                                                                      *)
(***************************************************************************)
\* C6: a failed uv sync (non-zero exit, or uv absent) leaves the project's
\* descriptor as rewritten, keeps the project out of `synced`, and does not
\* keep the later changed projects from being resynced.
C6_ResyncFailureIsolated ==
    /\ \A n \in DOMAIN trace :
        (trace[n].kind = "sync" /\ trace[n].outcome # "ok")
        => /\ trace[n].project \notin Range(synced)
           /\ Rewritten(trace[n].project)
           /\ files[trace[n].project] = Alone(files0[trace[n].project]).file
    /\ pc = "exit" =>
        /\ \A k \in DOMAIN updated : SyncRuns(updated[k]) # {}
        /\ Range(synced) =
            {p \in Projects : \E n \in SyncRuns(p) : trace[n].outcome = "ok"}

\* A finished run in which the first uv sync failed for want of uv, a later
\* one failed with a non-zero exit and a still later one succeeded.
C6_Witness ==
    /\ pc = "exit"
    /\ \E k, m, n \in DOMAIN trace :
        /\ k < m /\ m < n
        /\ trace[k].kind = "sync" /\ trace[k].outcome = "FileNotFoundError"
        /\ trace[m].kind = "sync" /\ trace[m].outcome = "CalledProcessError"
        /\ trace[n].kind = "sync" /\ trace[n].outcome = "ok"
        /\ synced = <<trace[n].project>>

(***************************************************************************)
(* C7                                                                      *)
(***************************************************************************)
\* C7: the process ends with exit code 1 exactly when the argument is
\* missing or, case ignored, is none of enable, disable, status, and with 0
\* otherwise, whatever happened to the projects; a run with an invalid
\* command line touches no descriptor and runs no uv sync.
C7_ExitCode ==
    /\ exitCode \in {0, 1}
    /\ pc = "exit" => (exitCode = 1 <=> ~ValidCommandLine)
    /\ exitCode = 1 => pc = "exit"
    /\ ~ValidCommandLine => (files = files0 /\ trace = <<>> /\ out = <<>>)

\* A run of ENABLE, typed in capitals, that ended with exit code 0 although
\* one descriptor was missing, one could not be updated and a uv sync failed.
C7_Witness ==
    /\ pc = "exit"
    /\ exitCode = 0
    /\ argv[1] # CmdEnable
    /\ command = CmdEnable
    /\ \E n \in DOMAIN out : out[n].status = "not found"
    /\ \E n \in DOMAIN out :
        out[n].line = "could not update" /\ out[n].status = "disabled"
    /\ \E n \in DOMAIN trace : trace[n].outcome = "FileNotFoundError"

(***************************************************************************)
(* C8                                                                      *)
(***************************************************************************)
\* C8 as claimed: when the descriptor of a project is read or written,
\* every changed project before it in the list has been resynced.
C8_ResyncBeforeNextProject ==
    \A n \in DOMAIN trace :
        trace[n].kind = "update"
        => \A k \in DOMAIN updated :
            Index(updated[k]) < Index(trace[n].project)
            => \E m \in SyncRuns(updated[k]) : m < n

\* C8 amended: an enable or disable run first processes the descriptor of
\* every project (detect, then transition) in list order, and only after
\* the last of them resyncs the changed projects, in list order.
C8_TwoPhases ==
    Rewriting =>
        LET done == IF pc = "update" THEN idx - 1 ELSE Len(EXAMPLE_DIRS)
        IN /\ \A n \in DOMAIN trace :
                IF n <= done
                THEN trace[n].kind = "update"
                        /\ trace[n].project = EXAMPLE_DIRS[n]
                ELSE /\ trace[n].kind = "sync"
                     /\ n - done \in DOMAIN updated
                     /\ trace[n].project = updated[n - done]
           /\ Len(trace) >= done
           /\ \A j, k \in DOMAIN updated :
                j < k => Index(updated[j]) < Index(updated[k])

\* A finished run that rewrote the first and the last project: both resyncs
\* follow the processing of the last project.
C8_Witness ==
    /\ pc = "exit"
    /\ updated = <<EXAMPLE_DIRS[1], EXAMPLE_DIRS[3]>>
    /\ Len(trace) = Len(EXAMPLE_DIRS) + 2
    /\ trace[Len(EXAMPLE_DIRS)].kind = "update"
    /\ trace[Len(EXAMPLE_DIRS) + 1].project = EXAMPLE_DIRS[1]
    /\ trace[Len(EXAMPLE_DIRS) + 2].project = EXAMPLE_DIRS[3]

(***************************************************************************)
(* C10                                                                     *)
(***************************************************************************)
\* C10: a status run leaves every descriptor, and the set of descriptors
\* that exist, as it was, and reports for each project of the list, once
\* and in list order, one of enabled, disabled, not found.
C10_StatusReadOnly ==
    command = CmdStatus =>
        /\ files = files0
        /\ Len(out) = (IF pc = "status" THEN idx - 1
                       ELSE IF pc = "exit" THEN Len(EXAMPLE_DIRS) ELSE 0)
        /\ \A n \in DOMAIN out :
            /\ out[n].project = EXAMPLE_DIRS[n]
            /\ out[n].status \in {"enabled", "disabled", "not found"}
            /\ out[n].status = "not found" <=> ~files0[out[n].project].exists

\* A finished status run that reported not found, enabled and disabled.
C10_Witness ==
    /\ pc = "exit"
    /\ command = CmdStatus
    /\ out[1].status = "not found"
    /\ out[2].status = "enabled"
    /\ out[3].status = "disabled"
    /\ files = files0

(***************************************************************************)
(* C11                                                                     *)
(***************************************************************************)
\* The descriptor exists, is not in the mode the run aims at, and holds no
\* occurrence of the block.
PatternMismatch(f) ==
    /\ f.exists
    /\ get_status(f) # TargetOf(WordOf(command))
    /\ Spans(f.text) = <<>>

\* C11: in an enable or disable run, a descriptor that is in the other mode
\* and holds no occurrence of the block is left as it was, is not collected
\* as changed and is not resynced; its project is reported once, as "could
\* not update" with the mode detected again, and the run ends with exit
\* code 0.
C11_SoftFailure ==
    Rewriting =>
        \A p \in Projects :
            PatternMismatch(files0[p]) =>
                /\ files[p] = files0[p]
                /\ ~Alone(files0[p]).changed
                /\ p \notin Range(updated)
                /\ SyncRuns(p) = {}
                /\ \A n \in Lines(p) :
                    /\ out[n].line = "could not update"
                    /\ out[n].status = get_status(files0[p])
                /\ (pc \in {"sync", "exit"} \/ idx > Index(p))
                        => Cardinality(Lines(p)) = 1
                /\ pc = "exit" => exitCode = 0

\* A finished disable run that could not update a descriptor with a section
\* header and no block, while it rewrote and resynced another project.
C11_Witness ==
    /\ pc = "exit"
    /\ command = CmdDisable
    /\ exitCode = 0
    /\ \E p \in Projects :
        /\ PatternMismatch(files0[p])
        /\ \E n \in Lines(p) :
            out[n].line = "could not update" /\ out[n].status = "enabled"
    /\ synced # <<>>

(***************************************************************************)
(* C12                                                                     *)
(***************************************************************************)
\* The descriptors that exist and hold an occurrence of the block.
WithBlock == {p \in Projects : files[p].exists /\ Spans(files[p].text) # <<>>}

\* C12 as claimed: when an enable or disable run has finished, every
\* descriptor that exists and holds the block is detected in the mode the
\* run aims at.
C12_AllInTargetMode ==
    (pc = "exit" /\ Rewriting) =>
        \A p \in WithBlock : get_status(files[p]) = TargetOf(WordOf(command))

\* C12 for enable alone: when an enable run has finished, every descriptor
\* that exists and holds the block is detected as enabled.
C12_AllEnabled ==
    (pc = "exit" /\ command = CmdEnable) =>
        \A p \in WithBlock : get_status(files[p]) = "enabled"

\* C12, the divergence: a finished disable run that rewrote the block of a
\* descriptor, reported the project as disabled and resynced it, and left
\* it detected as enabled beside a descriptor detected as disabled.
C12_Inconsistent ==
    /\ pc = "exit"
    /\ command = CmdDisable
    /\ \E p, q \in WithBlock :
        /\ Rewritten(p)
        /\ \E n \in Lines(p) : out[n].line = "disabled"
        /\ SyncRuns(p) # {}
        /\ get_status(files[p]) = "enabled"
        /\ get_status(files[q]) = "disabled"

(***************************************************************************)
(* C13                                                                     *)
(***************************************************************************)
\* The n-th call read the file, found it in the other mode than its target
\* and so made the substitution.
Substituted(n) ==
    /\ hist[n].before.exists
    /\ get_status(hist[n].before) # TargetOf(hist[n].op)

\* C13: a transition writes the file exactly when it made the substitution
\* and the substituted text differs from the text read; it returns true
\* exactly when it wrote; what it wrote is the substituted text; and when
\* it returns false the file is what it was before the call.
C13_ChangedExact ==
    \A n \in DOMAIN hist :
        hist[n].op \in Updates =>
            LET text == hist[n].before.text
                new  == Sub(SectionOf(hist[n].op), text)
            IN /\ hist[n].wrote <=> (Substituted(n) /\ new # text)
               /\ hist[n].changed <=> hist[n].wrote
               /\ hist[n].wrote => AfterCall(n) = File(new)
               /\ ~hist[n].changed => AfterCall(n) = hist[n].before

\* A disable that wrote the file and returned true, followed by a disable
\* that found the file still enabled, made the substitution, got the text
\* it had read, wrote nothing and returned false.
C13_Witness ==
    /\ Len(hist) = 2
    /\ hist[1].op = "disable" /\ hist[1].wrote /\ hist[1].changed
    /\ hist[1].before # hist[2].before
    /\ hist[2].op = "disable" /\ Substituted(2)
    /\ Spans(hist[2].before.text) # <<>>
    /\ ~hist[2].wrote /\ ~hist[2].changed
    /\ content = hist[2].before

(***************************************************************************)
(* C14                                                                     *)
(***************************************************************************)
\* The descriptor of p is what it was when the run started, or is the whole
\* text the transition of the run writes for it.
WholeText(p) == files[p] \in {files0[p], Alone(files0[p]).file}

\* The descriptors the run has to rewrite, and among them those it has
\* rewritten, are such that the rewritten ones come first in EXAMPLE_DIRS.
RewrittenFirst ==
    \A p, q \in Projects :
        (/\ Index(p) < Index(q)
         /\ Alone(files0[p]).wrote
         /\ Alone(files0[q]).wrote
         /\ files[q] # files0[q])
            => files[p] = Alone(files0[p]).file

\* C14 as claimed: wherever an enable or disable run is terminated, every
\* descriptor is its whole text of before the run or its whole rewritten
\* text, and the rewritten descriptors come first in the list among those
\* to rewrite.
C14_AtomicRewrite ==
    pc = "killed" => (\A p \in Projects : WholeText(p)) /\ RewrittenFirst

\* C14 without the atomic rewrite: wherever the run is terminated, a
\* descriptor that was rewritten in full stays rewritten, and the
\* descriptors touched come first in the list among those to rewrite.
C14_NoRollback == RewrittenFirst

\* C14, the divergence: a run terminated while write_text had the second
\* descriptor open: that descriptor, which held text, is empty, and the
\* first stays rewritten.
C14_Truncated ==
    /\ pc = "killed"
    /\ idx = 2
    /\ files0[EXAMPLE_DIRS[2]].text # <<>>
    /\ files[EXAMPLE_DIRS[2]] = File(<<>>)
    /\ files[EXAMPLE_DIRS[1]] = Alone(files0[EXAMPLE_DIRS[1]]).file
    /\ files[EXAMPLE_DIRS[1]] # files0[EXAMPLE_DIRS[1]]

(***************************************************************************)
(* C15                                                                     *)
(***************************************************************************)
\* C15 as claimed: after a transition that returned true, the descriptor is
\* detected in the mode the transition aimed at.
C15_ChangedReachesTarget ==
    \A n \in DOMAIN hist :
        (hist[n].op \in Updates /\ hist[n].changed)
            => get_status(AfterCall(n)) = TargetOf(hist[n].op)

\* C15 for enable alone: after an enable that returned true, the descriptor
\* is detected as enabled.
C15_EnableReachesTarget ==
    \A n \in DOMAIN hist :
        (hist[n].op = "enable" /\ hist[n].changed)
            => get_status(AfterCall(n)) = "enabled"

\* C15, the divergence: a disable that returned true and commented out
\* every occurrence of the block, after which the descriptor is still
\* detected as enabled.
C15_DisabledYetEnabled ==
    \E n \in DOMAIN hist :
        /\ hist[n].op = "disable"
        /\ hist[n].changed
        /\ Spans(AfterCall(n).text) # <<>>
        /\ \A k \in DOMAIN Occurrences(AfterCall(n).text) :
                Occurrences(AfterCall(n).text)[k] = DISABLED_SECTION
        /\ get_status(AfterCall(n)) = "enabled"

(***************************************************************************)
(* C16                                                                     *)
(***************************************************************************)
\* For each occurrence of the block in a text, whether its header line and
\* its dependency line are commented: <<header, dependency>>.
BlockForms(t) ==
    LET sp == Spans(t)
    IN {LET m == SOURCES_PATTERN(t, sp[n][1])
        IN <<t[m[2] + 1] = "#", t[m[4] + 1] = "#">> : n \in DOMAIN sp}

\* The projects a run has reported as in the mode it aims at: changed to
\* it, or already in it.
ReportedInTarget ==
    {out[n].project : n \in {k \in DOMAIN out :
        out[k].line \in {TargetOf(WordOf(command)), "already"}}}

\* C16 as claimed: when an enable run has finished, the blocks of every
\* project reported as enabled have the header line and the dependency
\* line uncommented; when a disable run has finished, the blocks of every
\* project reported as disabled have both lines commented.
C16_FormAgreesWithReport ==
    (pc = "exit" /\ Rewriting) =>
        \A p \in ReportedInTarget :
            BlockForms(files[p].text)
                \subseteq {IF command = CmdEnable THEN <<FALSE, FALSE>>
                           ELSE <<TRUE, TRUE>>}

\* C16 for the projects a run has changed: their blocks are in the form of
\* the mode the run aims at.
C16_ChangedBlocksInForm ==
    Rewriting =>
        \A p \in Range(updated) :
            BlockForms(files[p].text)
                = {IF command = CmdEnable THEN <<FALSE, FALSE>>
                   ELSE <<TRUE, TRUE>>}

\* C16, the divergence: a finished enable run that reported as already
\* enabled a project whose block has the header line uncommented and the
\* dependency line commented, and left it so.
C16_MixedReportedEnabled ==
    /\ pc = "exit"
    /\ command = CmdEnable
    /\ \E n \in DOMAIN out :
        /\ out[n].line = "already"
        /\ files[out[n].project] = files0[out[n].project]
        /\ <<FALSE, TRUE>> \in BlockForms(files[out[n].project].text)

====
